---- MODULE Spec2Model ----
(***************************************************************************)
(* Model of scripts/corner_navigator.py: the CornerNavigator waypoint      *)
(* sequencer (main / navigate_to_waypoints), its log file, the shutdown    *)
(* hook registered with rospy.on_shutdown, the odometry callback and the   *)
(* move_base action server seen through SimpleActionClient.                *)
(*                                                                         *)
(* The sequencer is one thread of control (pc).  The shutdown hook is run  *)
(* by rospy either from the signal handler or from another thread, so its  *)
(* statements interleave with the sequencer's statements (shPc).  The      *)
(* action server terminates requests at times of its own choosing.         *)
(***************************************************************************)
EXTENDS Integers, Sequences, FiniteSets, TLC

\* ---------------------------------------------------------------- bounds
\* longest waypoint list of a run a shutdown may interrupt
MaxWaypoints == 2
\* longest waypoint list of a run without a shutdown
MaxRunWaypoints == 3
\* longest waypoint list of a run with the position feed emitting
MaxFeedWaypoints == 1
\* longest waypoint list of a run that starts before the server is reachable
MaxStartWaypoints == 1
\* longest waypoint list of a run with the clock advancing
MaxClockWaypoints == 2
\* last value of the clock (rospy.Time.now() as the log prints it, "%.2f")
MaxTime == 3
\* invocations of shutdown_hook when it is invoked again after its first run
MaxHookRuns == 2

\* pause_duration values a waypoint may carry (0 = no dwell)
DwellValues == {0, 2}
\* positions the odometry feed may report
Poses == {1, 2}
None == 0
\* terminal statuses the action server reports (actionlib.GoalStatus)
TerminalStatuses == {"SUCCEEDED", "ABORTED"}
NoResult == "none"
\* ways wait_for_result comes back
WaitExits == {"result", "deadline", "shutdown"}

VARIABLES
    waypoints,          \* self.waypoints: sequence of pause_duration values
    i,                  \* 1-based position of the for loop in self.waypoints
    pc,                 \* position of main / navigate_to_waypoints
    waypoints_reached,  \* self.waypoints_reached
    waypoints_failed,   \* self.waypoints_failed
    log,                \* what has been written to self.log_file after the header
    closed,             \* self.log_file.closed
    closeCount,         \* number of self.log_file.close() calls
    current_odom,       \* self.current_odom (None or a pose)
    outstanding,        \* requests at the action server, not terminated, not cancelled
    tracked,            \* waypoint whose goal the SimpleActionClient tracks (0 = none)
    result,             \* terminal status received for the tracked goal
    success,            \* return value of the last wait_for_result
    sendCalls,          \* waypoints passed to client.send_goal, in call order
    sumLine,            \* number of summary writes done (lines 196-207)
    shutdownFlag,       \* rospy.is_shutdown()
    shPc,               \* position of the shutdown hook
    cancelCalls,        \* number of client.cancel_all_goals() calls
    emitted,            \* last pose the position feed emitted (None before the first)
    server,             \* the move_base action server is reachable
    now,                \* rospy.Time.now()
    waitExit            \* why the last wait_for_result came back

vars == <<waypoints, i, pc, waypoints_reached, waypoints_failed, log, closed,
          closeCount, current_odom, outstanding, tracked, result, success,
          sendCalls, sumLine, shutdownFlag, shPc, cancelCalls, emitted, server,
          now, waitExit>>

seqVars == <<i, pc, waypoints_reached, waypoints_failed, success, sendCalls, sumLine>>
clientVars == <<outstanding, tracked, result>>
hookVars == <<shutdownFlag, shPc, cancelCalls, closed, closeCount>>

\* ------------------------------------------------------------ log records
Row(w, status, odom, t) ==
    [kind |-> "row", wp |-> w, text |-> status, val |-> 0, actual |-> odom, ts |-> t]

FooterRecord(text, v) ==
    [kind |-> "footer", wp |-> 0, text |-> text, val |-> v, actual |-> None, ts |-> 0]

ShutdownMarker ==
    [kind |-> "marker", wp |-> 0, text |-> "Shutdown initiated", val |-> 0, actual |-> None,
     ts |-> 0]

\* number of self.log_file.write calls of the summary block
NumSummaryWrites == 10

\* variant: the rate is cut off after the first decimal instead of rounded
SuccessRate_truncated(reached, total) ==
    IF total > 0 THEN (1000 * reached) \div total ELSE 0

\* "{:.1f}" of 100.0 * reached / total, in tenths of a percent; the guard of
\* line 204 gives 0 for an empty list.  Rounds to nearest, a tie to even.
SuccessRate(reached, total) ==
    IF total > 0
    THEN LET q == (1000 * reached) \div total
             r == (1000 * reached) % total
         IN  IF 2 * r > total THEN q + 1
             ELSE IF 2 * r < total THEN q
             ELSE IF q % 2 = 0 THEN q ELSE q + 1
    ELSE 0

\* the k-th write of the summary block
SummaryRecord(k) ==
    CASE k = 1  -> FooterRecord("rule", 0)
      [] k = 2  -> FooterRecord("NAVIGATION SUMMARY", 0)
      [] k = 3  -> FooterRecord("rule", 0)
      [] k = 4  -> FooterRecord("End Time", 0)
      [] k = 5  -> FooterRecord("Total Waypoints", Len(waypoints))
      [] k = 6  -> FooterRecord("Successfully Reached", waypoints_reached)
      [] k = 7  -> FooterRecord("Failed", waypoints_failed)
      [] k = 8  -> FooterRecord("Success Rate", SuccessRate(waypoints_reached, Len(waypoints)))
      [] k = 9  -> FooterRecord("Total Duration", 0)
      [] OTHER  -> FooterRecord("rule", 0)

\* variant: "Goal Sent" rows carry a zero stamp instead of the clock
log_waypoint_zeroSent(w, status) ==
    Append(log, Row(w, status, current_odom, IF status = "Goal Sent" THEN 0 ELSE now))

\* log_waypoint: the row it appends (write raises ValueError on a closed file)
log_waypoint(w, status) == Append(log, Row(w, status, current_odom, now))

\* the clock after a wait that took time; it stops at MaxTime
Advance(t) == IF t < MaxTime THEN t + 1 ELSE t

\* ------------------------------------------------------------------- Init
RECURSIVE SeqsUpTo(_, _)
SeqsUpTo(S, n) ==
    IF n = 0 THEN {<<>>}
    ELSE LET shorter == SeqsUpTo(S, n - 1)
         IN  shorter \cup {Append(s, x) : s \in {t \in shorter : Len(t) = n - 1}, x \in S}

\* the fields as __init__ sets them, main at startPc, the clock at t
InitAt(maxLen, startPc, up, t) ==
    /\ waypoints \in SeqsUpTo(DwellValues, maxLen)
    /\ i = 0
    /\ pc = startPc
    /\ emitted = None
    /\ server = up
    /\ now = t
    /\ waitExit = "result"
    /\ waypoints_reached = 0
    /\ waypoints_failed = 0
    /\ log = <<>>
    /\ closed = FALSE
    /\ closeCount = 0
    /\ current_odom = None
    /\ outstanding = {}
    /\ tracked = 0
    /\ result = NoResult
    /\ success = FALSE
    /\ sendCalls = <<>>
    /\ sumLine = 0
    /\ shutdownFlag = FALSE
    /\ shPc = "idle"
    /\ cancelCalls = 0

\* state after CornerNavigator() returned: server connected, header written,
\* counters zero, hook registered; main is about to sleep 5 s.  The clock
\* is at its last value, so that time plays no part.
InitWith(maxLen) == InitAt(maxLen, "warmup", TRUE, MaxTime)

Init == InitWith(MaxWaypoints)

\* ---------------------------------------------------------------- startup
\* variant: __init__ goes on without waiting for the action server
Connect_noWait ==
    /\ pc = "connect"
    /\ pc' = "warmup"
    /\ shPc' = IF shPc = "unregistered" THEN "cancel" ELSE shPc
    /\ UNCHANGED <<waypoints, i, waypoints_reached, waypoints_failed, log, success,
                   sendCalls, sumLine, current_odom, emitted, server, now, waitExit>>
    /\ UNCHANGED clientVars
    /\ UNCHANGED <<shutdownFlag, cancelCalls, closed, closeCount>>

\* __init__: self.client.wait_for_server() comes back when the server is
\* reachable or rospy is shut down; the rest of __init__ opens the log and
\* registers the hook, which rospy runs at once when it is already shut down
Connect ==
    /\ pc = "connect"
    /\ server \/ shutdownFlag
    /\ pc' = "warmup"
    /\ shPc' = IF shPc = "unregistered" THEN "cancel" ELSE shPc
    /\ UNCHANGED <<waypoints, i, waypoints_reached, waypoints_failed, log, success,
                   sendCalls, sumLine, current_odom, emitted, server, now, waitExit>>
    /\ UNCHANGED clientVars
    /\ UNCHANGED <<shutdownFlag, cancelCalls, closed, closeCount>>

\* the move_base action server becomes reachable
ServerUp ==
    /\ ~server
    /\ server' = TRUE
    /\ UNCHANGED <<waypoints, log, current_odom, emitted, now, waitExit>>
    /\ UNCHANGED seqVars
    /\ UNCHANGED clientVars
    /\ UNCHANGED hookVars

\* ------------------------------------------------------------- sequencer
\* main: rospy.sleep(5.0); raises ROSInterruptException on shutdown
Warmup ==
    /\ pc = "warmup"
    /\ IF shutdownFlag
       THEN /\ pc' = "interrupted"
            /\ i' = i
            /\ now' = now
       ELSE /\ pc' = "dispatch"
            /\ i' = 1
            /\ now' = Advance(now)
    /\ UNCHANGED <<waypoints, waypoints_reached, waypoints_failed, log, success,
                   sendCalls, sumLine, current_odom, emitted, server, waitExit>>
    /\ UNCHANGED clientVars
    /\ UNCHANGED hookVars

\* loop head, create_goal and log_waypoint(..., "Goal Sent")
Dispatch ==
    /\ pc = "dispatch"
    /\ i <= Len(waypoints)
    /\ IF closed
       THEN /\ pc' = "error"
            /\ log' = log
       ELSE /\ pc' = "send"
            /\ log' = log_waypoint(i, "Goal Sent")
    /\ UNCHANGED <<waypoints, i, waypoints_reached, waypoints_failed, success,
                   sendCalls, sumLine, current_odom, emitted, server, now, waitExit>>
    /\ UNCHANGED clientVars
    /\ UNCHANGED hookVars

\* variant: the loop leaves without the summary being written
LoopExit_noSummary ==
    /\ pc = "dispatch"
    /\ i > Len(waypoints)
    /\ pc' = "spin"
    /\ UNCHANGED <<waypoints, i, waypoints_reached, waypoints_failed, log, success,
                   sendCalls, sumLine, current_odom, emitted, server, now, waitExit>>
    /\ UNCHANGED clientVars
    /\ UNCHANGED hookVars

\* the for loop is exhausted
LoopExit ==
    /\ pc = "dispatch"
    /\ i > Len(waypoints)
    /\ pc' = "summary"
    /\ UNCHANGED <<waypoints, i, waypoints_reached, waypoints_failed, log, success,
                   sendCalls, sumLine, current_odom, emitted, server, now, waitExit>>
    /\ UNCHANGED clientVars
    /\ UNCHANGED hookVars

\* variant: the goal is sent and the loop goes on without waiting for it
SendGoal_noWait(delivered) ==
    /\ pc = "send"
    /\ (~delivered) => shutdownFlag
    /\ pc' = "dispatch"
    /\ i' = i + 1
    /\ sendCalls' = Append(sendCalls, i)
    /\ tracked' = i
    /\ result' = NoResult
    /\ outstanding' = IF delivered THEN outstanding \cup {i} ELSE outstanding
    /\ UNCHANGED <<waypoints, waypoints_reached, waypoints_failed, log, success,
                   sumLine, current_odom, emitted, server, now, waitExit>>
    /\ UNCHANGED hookVars

\* self.client.send_goal(goal): the client tracks the new goal only; once
\* rospy is shut down the goal topic may already be closed and the publish
\* is then dropped without an error
SendGoal(delivered) ==
    /\ pc = "send"
    /\ (~delivered) => shutdownFlag
    /\ pc' = "wait"
    /\ sendCalls' = Append(sendCalls, i)
    /\ tracked' = i
    /\ result' = NoResult
    /\ outstanding' = IF delivered THEN outstanding \cup {i} ELSE outstanding
    /\ UNCHANGED <<waypoints, i, waypoints_reached, waypoints_failed, log, success,
                   sumLine, current_odom, emitted, server, now, waitExit>>
    /\ UNCHANGED hookVars

\* variant: a wait that ends without a result cancels the goals
WaitForResult_cancels(why) ==
    /\ pc = "wait"
    /\ why = "result" => result # NoResult
    /\ why = "deadline" => (result = NoResult /\ ~shutdownFlag)
    /\ why = "shutdown" => (result = NoResult /\ shutdownFlag)
    /\ pc' = "check"
    /\ success' = (result # NoResult)
    /\ waitExit' = why
    /\ now' = IF why = "shutdown" THEN now ELSE Advance(now)
    /\ IF result = NoResult
       THEN /\ outstanding' = {}
            /\ cancelCalls' = cancelCalls + 1
       ELSE UNCHANGED <<outstanding, cancelCalls>>
    /\ UNCHANGED <<waypoints, i, waypoints_reached, waypoints_failed, log,
                   sendCalls, sumLine, current_odom, emitted, server, tracked, result>>
    /\ UNCHANGED <<shutdownFlag, shPc, closed, closeCount>>

\* self.client.wait_for_result(rospy.Duration(60.0)): returns when the
\* tracked goal is done, when the deadline passed, or when rospy is shut
\* down; the value is "the goal is done".  Nothing is cancelled.  The
\* deadline is only looked at while rospy is not shut down.  The clock has
\* moved on when the wait ends at the deadline (60 s) or with the result of
\* a goal the robot drove to; a shutdown ends the wait at once.
WaitForResult(why) ==
    /\ pc = "wait"
    /\ why = "result" => result # NoResult
    /\ why = "deadline" => (result = NoResult /\ ~shutdownFlag)
    /\ why = "shutdown" => (result = NoResult /\ shutdownFlag)
    /\ pc' = "check"
    /\ success' = (result # NoResult)
    /\ waitExit' = why
    /\ now' = IF why = "shutdown" THEN now ELSE Advance(now)
    /\ UNCHANGED <<waypoints, i, waypoints_reached, waypoints_failed, log,
                   sendCalls, sumLine, current_odom, emitted, server>>
    /\ UNCHANGED clientVars
    /\ UNCHANGED hookVars

\* variant: the timeout branch forgets to count the waypoint
Timeout_uncounted ==
    /\ pc = "check"
    /\ ~success
    /\ IF closed
       THEN /\ pc' = "error"
            /\ UNCHANGED <<log, i>>
       ELSE /\ log' = log_waypoint(i, "Timeout")
            /\ i' = i + 1
            /\ pc' = "dispatch"
    /\ UNCHANGED <<waypoints, waypoints_reached, waypoints_failed, success, sendCalls,
                   sumLine, current_odom, emitted, server, now, waitExit>>
    /\ UNCHANGED clientVars
    /\ UNCHANGED hookVars

\* variant: a timed-out waypoint is attempted again
Timeout_retry ==
    /\ pc = "check"
    /\ ~success
    /\ IF closed
       THEN /\ pc' = "error"
            /\ UNCHANGED <<log, waypoints_failed>>
       ELSE /\ log' = log_waypoint(i, "Timeout")
            /\ waypoints_failed' = waypoints_failed + 1
            /\ pc' = "dispatch"
    /\ UNCHANGED <<waypoints, i, waypoints_reached, success, sendCalls, sumLine, current_odom, emitted, server, now, waitExit>>
    /\ UNCHANGED clientVars
    /\ UNCHANGED hookVars

\* if not success: log "Timeout", count, continue
Timeout ==
    /\ pc = "check"
    /\ ~success
    /\ IF closed
       THEN /\ pc' = "error"
            /\ UNCHANGED <<log, waypoints_failed, i>>
       ELSE /\ log' = log_waypoint(i, "Timeout")
            /\ waypoints_failed' = waypoints_failed + 1
            /\ i' = i + 1
            /\ pc' = "dispatch"
    /\ UNCHANGED <<waypoints, waypoints_reached, success, sendCalls, sumLine, current_odom, emitted, server, now, waitExit>>
    /\ UNCHANGED clientVars
    /\ UNCHANGED hookVars

\* variant: the dwell is taken whatever pause_duration is
Reached_alwaysDwell ==
    /\ pc = "check"
    /\ success
    /\ result = "SUCCEEDED"
    /\ IF closed
       THEN /\ pc' = "error"
            /\ UNCHANGED <<log, waypoints_reached>>
       ELSE /\ log' = log_waypoint(i, "Reached")
            /\ waypoints_reached' = waypoints_reached + 1
            /\ pc' = "dwell"
    /\ UNCHANGED <<waypoints, i, waypoints_failed, success, sendCalls, sumLine, current_odom, emitted, server, now, waitExit>>
    /\ UNCHANGED clientVars
    /\ UNCHANGED hookVars

\* state == SUCCEEDED: log "Reached", count, dwell when pause_duration > 0
Reached ==
    /\ pc = "check"
    /\ success
    /\ result = "SUCCEEDED"
    /\ IF closed
       THEN /\ pc' = "error"
            /\ UNCHANGED <<log, waypoints_reached, i>>
       ELSE /\ log' = log_waypoint(i, "Reached")
            /\ waypoints_reached' = waypoints_reached + 1
            /\ IF waypoints[i] > 0
               THEN /\ pc' = "dwell"
                    /\ i' = i
               ELSE /\ pc' = "dispatch"
                    /\ i' = i + 1
    /\ UNCHANGED <<waypoints, waypoints_failed, success, sendCalls, sumLine, current_odom, emitted, server, now, waitExit>>
    /\ UNCHANGED clientVars
    /\ UNCHANGED hookVars

\* variant: a failed waypoint is counted as reached
Failed_countsReached ==
    /\ pc = "check"
    /\ success
    /\ result # "SUCCEEDED"
    /\ IF closed
       THEN /\ pc' = "error"
            /\ UNCHANGED <<log, waypoints_reached, i>>
       ELSE /\ log' = log_waypoint(i, "Failed")
            /\ waypoints_reached' = waypoints_reached + 1
            /\ i' = i + 1
            /\ pc' = "dispatch"
    /\ UNCHANGED <<waypoints, waypoints_failed, success, sendCalls, sumLine, current_odom, emitted, server, now, waitExit>>
    /\ UNCHANGED clientVars
    /\ UNCHANGED hookVars

\* any other terminal state: log "Failed", count
Failed ==
    /\ pc = "check"
    /\ success
    /\ result # "SUCCEEDED"
    /\ IF closed
       THEN /\ pc' = "error"
            /\ UNCHANGED <<log, waypoints_failed, i>>
       ELSE /\ log' = log_waypoint(i, "Failed")
            /\ waypoints_failed' = waypoints_failed + 1
            /\ i' = i + 1
            /\ pc' = "dispatch"
    /\ UNCHANGED <<waypoints, waypoints_reached, success, sendCalls, sumLine, current_odom, emitted, server, now, waitExit>>
    /\ UNCHANGED clientVars
    /\ UNCHANGED hookVars

\* rospy.sleep(pause_duration); raises ROSInterruptException on shutdown
Dwell ==
    /\ pc = "dwell"
    /\ pc' = IF shutdownFlag THEN "interrupted" ELSE "log_pause"
    /\ now' = IF shutdownFlag THEN now ELSE Advance(now)
    /\ UNCHANGED <<waypoints, i, waypoints_reached, waypoints_failed, log, success,
                   sendCalls, sumLine, current_odom, emitted, server, waitExit>>
    /\ UNCHANGED clientVars
    /\ UNCHANGED hookVars

\* log_waypoint(..., "Pause Complete")
PauseComplete ==
    /\ pc = "log_pause"
    /\ IF closed
       THEN /\ pc' = "error"
            /\ UNCHANGED <<log, i>>
       ELSE /\ log' = log_waypoint(i, "Pause Complete")
            /\ i' = i + 1
            /\ pc' = "dispatch"
    /\ UNCHANGED <<waypoints, waypoints_reached, waypoints_failed, success,
                   sendCalls, sumLine, current_odom, emitted, server, now, waitExit>>
    /\ UNCHANGED clientVars
    /\ UNCHANGED hookVars

\* one self.log_file.write of the summary block
SummaryWrite ==
    /\ pc = "summary"
    /\ IF closed
       THEN /\ pc' = "error"
            /\ UNCHANGED <<log, sumLine>>
       ELSE /\ log' = Append(log, SummaryRecord(sumLine + 1))
            /\ sumLine' = sumLine + 1
            /\ pc' = IF sumLine + 1 = NumSummaryWrites THEN "spin" ELSE "summary"
    /\ UNCHANGED <<waypoints, i, waypoints_reached, waypoints_failed, success,
                   sendCalls, current_odom, emitted, server, now, waitExit>>
    /\ UNCHANGED clientVars
    /\ UNCHANGED hookVars

\* rospy.spin() returns once rospy is shut down
Spin ==
    /\ pc = "spin"
    /\ shutdownFlag
    /\ pc' = "exit"
    /\ UNCHANGED <<waypoints, i, waypoints_reached, waypoints_failed, log, success,
                   sendCalls, sumLine, current_odom, emitted, server, now, waitExit>>
    /\ UNCHANGED clientVars
    /\ UNCHANGED hookVars

\* --------------------------------------------------------- shutdown hook
\* rospy.signal_shutdown: raises the shutdown flag, then runs the hooks
\* once; while __init__ has not come to rospy.on_shutdown there is no hook
SignalShutdown ==
    /\ shPc = "idle"
    /\ shutdownFlag' = TRUE
    /\ shPc' = IF pc = "connect" THEN "unregistered" ELSE "cancel"
    /\ UNCHANGED <<waypoints, log, current_odom, emitted, server, now, waitExit,
                   cancelCalls, closed, closeCount>>
    /\ UNCHANGED seqVars
    /\ UNCHANGED clientVars

\* variant: the hook cancels only when a request is outstanding
HookCancel_ifOutstanding ==
    /\ shPc = "cancel"
    /\ cancelCalls' = IF outstanding # {} THEN cancelCalls + 1 ELSE cancelCalls
    /\ outstanding' = {}
    /\ shPc' = "write"
    /\ UNCHANGED <<waypoints, log, current_odom, emitted, server, now, waitExit, shutdownFlag, closed, closeCount,
                   tracked, result>>
    /\ UNCHANGED seqVars

\* self.client.cancel_all_goals()
HookCancel ==
    /\ shPc = "cancel"
    /\ cancelCalls' = cancelCalls + 1
    /\ outstanding' = {}
    /\ shPc' = "write"
    /\ UNCHANGED <<waypoints, log, current_odom, emitted, server, now, waitExit, shutdownFlag, closed, closeCount,
                   tracked, result>>
    /\ UNCHANGED seqVars

\* variant: the hook writes a summary block of its own before the marker
HookWrite_summary ==
    /\ shPc = "write"
    /\ IF closed
       THEN /\ shPc' = "done"
            /\ log' = log
       ELSE /\ shPc' = "close"
            /\ log' = log \o <<FooterRecord("NAVIGATION SUMMARY", 0), ShutdownMarker>>
    /\ UNCHANGED <<waypoints, current_odom, emitted, server, now, waitExit, shutdownFlag, cancelCalls, closed, closeCount>>
    /\ UNCHANGED seqVars
    /\ UNCHANGED clientVars

\* variant: the hook writes and closes without looking at log_file.closed
HookWrite_unguarded ==
    /\ shPc = "write"
    /\ shPc' = "close"
    /\ log' = Append(log, ShutdownMarker)
    /\ UNCHANGED <<waypoints, current_odom, emitted, server, now, waitExit, shutdownFlag,
                   cancelCalls, closed, closeCount>>
    /\ UNCHANGED seqVars
    /\ UNCHANGED clientVars

\* if self.log_file and not self.log_file.closed: write the marker
HookWrite ==
    /\ shPc = "write"
    /\ IF closed
       THEN /\ shPc' = "done"
            /\ log' = log
       ELSE /\ shPc' = "close"
            /\ log' = Append(log, ShutdownMarker)
    /\ UNCHANGED <<waypoints, current_odom, emitted, server, now, waitExit, shutdownFlag, cancelCalls, closed, closeCount>>
    /\ UNCHANGED seqVars
    /\ UNCHANGED clientVars

\* self.log_file.close()
HookClose ==
    /\ shPc = "close"
    /\ closed' = TRUE
    /\ closeCount' = closeCount + 1
    /\ shPc' = "done"
    /\ UNCHANGED <<waypoints, log, current_odom, emitted, server, now, waitExit, shutdownFlag, cancelCalls>>
    /\ UNCHANGED seqVars
    /\ UNCHANGED clientVars

\* shutdown_hook is invoked once more after it has run
HookAgain ==
    /\ shPc = "done"
    /\ cancelCalls < MaxHookRuns
    /\ shPc' = "cancel"
    /\ UNCHANGED <<waypoints, log, current_odom, emitted, server, now, waitExit,
                   shutdownFlag, cancelCalls, closed, closeCount>>
    /\ UNCHANGED seqVars
    /\ UNCHANGED clientVars

\* ------------------------------------------------------------ environment
\* rospy.Time.now() moves on by one unit of the printed precision
Tick ==
    /\ now < MaxTime
    /\ now' = now + 1
    /\ UNCHANGED <<waypoints, log, current_odom, emitted, server, waitExit>>
    /\ UNCHANGED seqVars
    /\ UNCHANGED clientVars
    /\ UNCHANGED hookVars

\* variant: the client takes the status of any request for that of its goal
ServiceTerminate_anyGoal(r, st) ==
    /\ r \in outstanding
    /\ outstanding' = outstanding \ {r}
    /\ result' = st
    /\ UNCHANGED <<waypoints, log, current_odom, emitted, server, now, waitExit, tracked>>
    /\ UNCHANGED seqVars
    /\ UNCHANGED hookVars

\* the action server ends request r with a terminal status; the client
\* keeps the status only when r is the goal it tracks
ServiceTerminate(r, st) ==
    /\ r \in outstanding
    /\ outstanding' = outstanding \ {r}
    /\ result' = IF r = tracked THEN st ELSE result
    /\ UNCHANGED <<waypoints, log, current_odom, emitted, server, now, waitExit, tracked>>
    /\ UNCHANGED seqVars
    /\ UNCHANGED hookVars

\* variant: the callback keeps the first message and drops the later ones
odom_callback_keepFirst(p) ==
    /\ current_odom' = IF current_odom = None THEN p ELSE current_odom
    /\ emitted' = p
    /\ UNCHANGED <<waypoints, log, server, now, waitExit>>
    /\ UNCHANGED seqVars
    /\ UNCHANGED clientVars
    /\ UNCHANGED hookVars

\* the feed emits pose p: odom_callback(msg)
odom_callback(p) ==
    /\ current_odom' = p
    /\ emitted' = p
    /\ UNCHANGED <<waypoints, log, server, now, waitExit>>
    /\ UNCHANGED seqVars
    /\ UNCHANGED clientVars
    /\ UNCHANGED hookVars

\* ------------------------------------------------------- specifications
SequencerStep ==
    \/ Warmup
    \/ Dispatch
    \/ LoopExit
    \/ \E delivered \in BOOLEAN : SendGoal(delivered)
    \/ \E why \in WaitExits : WaitForResult(why)
    \/ Timeout
    \/ Reached
    \/ Failed
    \/ Dwell
    \/ PauseComplete
    \/ SummaryWrite
    \/ Spin

HookStep ==
    \/ SignalShutdown
    \/ HookCancel
    \/ HookWrite
    \/ HookClose

ServiceStep == \E r \in 1..Len(waypoints), st \in TerminalStatuses : ServiceTerminate(r, st)

Next == SequencerStep \/ HookStep \/ ServiceStep

Spec == Init /\ [][Next]_vars

\* the run above with the position feed emitting (shorter waypoint lists)
InitFeed == InitWith(MaxFeedWaypoints)

FeedStep == \E p \in Poses : odom_callback(p)

NextFeed == SequencerStep \/ HookStep \/ ServiceStep \/ FeedStep

SpecFeed == InitFeed /\ [][NextFeed]_vars

\* a run without a shutdown signal: every statement of the sequencer is
\* eventually executed (wait_for_result is bounded by its deadline, the
\* sleeps end), rospy.spin() blocks for ever
InitRun == InitWith(MaxRunWaypoints)

RunSequencerStep ==
    \/ Warmup
    \/ Dispatch
    \/ LoopExit
    \/ SendGoal(TRUE)
    \/ \E why \in WaitExits : WaitForResult(why)
    \/ Timeout
    \/ Reached
    \/ Failed
    \/ Dwell
    \/ PauseComplete
    \/ SummaryWrite

NextRun == RunSequencerStep \/ ServiceStep

SpecRun == InitRun /\ [][NextRun]_vars /\ WF_vars(RunSequencerStep)

\* the run from the start of __init__, the action server not yet reachable
InitStartup == InitAt(MaxStartWaypoints, "connect", FALSE, MaxTime)

NextStartup == Connect \/ ServerUp \/ SequencerStep \/ HookStep \/ ServiceStep

SpecStartup == InitStartup /\ [][NextStartup]_vars

\* the run without a shutdown, the clock starting at 0 and advancing
InitClock == InitAt(MaxClockWaypoints, "warmup", TRUE, 0)

NextClock == RunSequencerStep \/ ServiceStep \/ Tick

SpecClock == InitClock /\ [][NextClock]_vars

\* the run with shutdown_hook invoked again after its first run
NextRehook == SequencerStep \/ HookStep \/ ServiceStep \/ HookAgain

SpecRehook == Init /\ [][NextRehook]_vars

\* ------------------------------------------------------ log observations
RECURSIVE CountIn(_, _, _)
\* number of records of the given kind and text in a log
CountIn(l, kind, text) ==
    IF l = <<>> THEN 0
    ELSE (IF Head(l).kind = kind /\ Head(l).text = text THEN 1 ELSE 0)
         + CountIn(Tail(l), kind, text)

FooterCount == CountIn(log, "footer", "NAVIGATION SUMMARY")
MarkerCount == CountIn(log, "marker", "Shutdown initiated")
RowCount(status) == CountIn(log, "row", status)

\* the rows of the log, without footer and marker records
Rows == SelectSeq(log, LAMBDA e : e.kind = "row")

HasRow(w, status) == \E k \in 1..Len(log) :
    log[k].kind = "row" /\ log[k].wp = w /\ log[k].text = status

LoopDone == pc # "warmup" /\ i > Len(waypoints)
Terminated == pc \in {"exit", "interrupted", "error"} /\ shPc = "done"

\* ----------------------------------------------------------------- C1
\* C1: reached + failed never exceeds the number of waypoints, and equals
\* it once the loop has processed every waypoint.
C1_CountersWithinTotal ==
    /\ waypoints_reached + waypoints_failed <= Len(waypoints)
    /\ LoopDone => waypoints_reached + waypoints_failed = Len(waypoints)

C1_Witness ==
    /\ pc = "spin"
    /\ ~shutdownFlag
    /\ Len(waypoints) = 2
    /\ waypoints_reached = 1
    /\ waypoints_failed = 1

C3_ShutdownOnce ==
    /\ cancelCalls <= 1
    /\ closeCount <= 1
    /\ MarkerCount <= 1
    /\ shPc = "done" =>
          /\ cancelCalls = 1
          /\ MarkerCount = 1
          /\ closeCount = 1
          /\ closed

\* shutdown during the warm-up, no request outstanding
C3_Witness ==
    /\ shPc = "done"
    /\ pc = "interrupted"
    /\ sendCalls = <<>>
    /\ log = <<ShutdownMarker>>

\* ----------------------------------------------------------------- C4
\* C4 (as claimed): at most one request is outstanding at any time.
C4_AtMostOneOutstanding == Cardinality(outstanding) <= 1

\* C4 (amended): the sequencer awaits one request at a time; any other
\* outstanding request belongs to an earlier waypoint that was classified
\* "Timeout" and left in flight.
C4_OthersTimedOut ==
    \A r \in outstanding : r = tracked \/ (r < tracked /\ HasRow(r, "Timeout"))

C4_Witness ==
    /\ outstanding = {1, 2}
    /\ tracked = 2
    /\ HasRow(1, "Timeout")
    /\ ~shutdownFlag

\* ----------------------------------------------------------------- C5
\* C5: a wait_for_result that returns without a terminal status cancels
\* nothing and leaves the requests in flight, through the "Timeout" branch
\* too; only the shutdown hook calls cancel_all_goals.
C5_TimeoutDoesNotCancel ==
    [][ /\ cancelCalls' # cancelCalls => (shPc = "cancel" /\ shPc' = "write")
        /\ (pc = "wait" /\ pc' = "check" /\ ~success') =>
              (outstanding' = outstanding /\ cancelCalls' = cancelCalls)
        /\ (pc = "check" /\ ~success /\ pc' # pc) =>
              (outstanding' = outstanding /\ cancelCalls' = cancelCalls)
      ]_vars

C5_Witness ==
    /\ HasRow(1, "Timeout")
    /\ 1 \in outstanding
    /\ pc = "dispatch"
    /\ cancelCalls = 0
    /\ ~shutdownFlag

\* ----------------------------------------------------------------- C6
\* the step appended one row with this status
Appended(status) ==
    /\ Len(log') = Len(log) + 1
    /\ log'[Len(log')].kind = "row"
    /\ log'[Len(log')].text = status

\* C6: a waypoint changes exactly one counter by one (Timeout and Failed
\* count as failed, Reached as reached); the counters never decrease and
\* stay put in steps of the odometry callback and of the shutdown hook.
C6_OneCounterPerWaypoint ==
    [][ LET dr == waypoints_reached' - waypoints_reached
            df == waypoints_failed' - waypoints_failed
        IN  /\ dr \in {0, 1}
            /\ df \in {0, 1}
            /\ dr + df <= 1
            /\ Appended("Timeout") => (df = 1 /\ dr = 0)
            /\ Appended("Failed") => (df = 1 /\ dr = 0)
            /\ Appended("Reached") => (dr = 1 /\ df = 0)
            /\ dr + df = 1 => (i >= 1 /\ log'[Len(log')].wp = i /\
                                 (Appended("Timeout") \/ Appended("Failed") \/ Appended("Reached")))
            /\ current_odom' # current_odom => (dr = 0 /\ df = 0)
            /\ (shPc' # shPc \/ closed' # closed) => (dr = 0 /\ df = 0)
      ]_vars

C6_Witness ==
    /\ waypoints_reached = 1
    /\ waypoints_failed = 0
    /\ current_odom = 2
    /\ log[Len(log)] = Row(1, "Reached", 1, MaxTime)
    /\ shPc = "write"

\* ----------------------------------------------------------------- C7
Outcomes == {"Reached", "Failed", "Timeout"}

\* the statuses of the rows of waypoint w, in file order
RowTexts(w) ==
    LET R == SelectSeq(log, LAMBDA e : e.kind = "row" /\ e.wp = w)
    IN  [k \in 1..Len(R) |-> R[k].text]

\* the rows a waypoint with outcome o has when its processing is over
Pattern(w, o) ==
    <<"Goal Sent", o>> \o
        (IF o = "Reached" /\ waypoints[w] > 0 THEN <<"Pause Complete">> ELSE <<>>)

IsPrefix(a, b) == Len(a) <= Len(b) /\ a = SubSeq(b, 1, Len(a))

\* the loop has moved past waypoint w
Processed(w) == pc # "warmup" /\ w < i

\* C7: per waypoint the rows are "Goal Sent", one outcome, and "Pause
\* Complete" exactly for a Reached waypoint with a dwell > 0; "Goal Sent" is
\* in the log before send_goal is called; waypoints do not interleave.
C7_RowOrder ==
    /\ \A k \in 1..(Len(Rows) - 1) : Rows[k].wp <= Rows[k + 1].wp
    /\ \A w \in 1..Len(waypoints) :
          /\ \E o \in Outcomes : IsPrefix(RowTexts(w), Pattern(w, o))
          /\ Processed(w) => \E o \in Outcomes : RowTexts(w) = Pattern(w, o)
    /\ \A k \in 1..Len(sendCalls) : HasRow(sendCalls[k], "Goal Sent")

C7_Witness ==
    /\ waypoints = <<0, 2, 2>>
    /\ RowTexts(1) = <<"Goal Sent", "Reached">>
    /\ RowTexts(2) = <<"Goal Sent", "Reached", "Pause Complete">>
    /\ RowTexts(3) = <<"Goal Sent", "Timeout">>

\* ----------------------------------------------------------------- C8
\* C8: a Failed or Timeout row of waypoint i is followed by the loop head of
\* waypoint i+1; the loop head logs "Goal Sent" for it, leaves when the list
\* is exhausted, and ends in an error only on a closed log; send_goal is
\* called for waypoints 1, 2, 3, ... in order, once each.
C8_NoRetryNotFatal ==
    [][ /\ (Appended("Failed") \/ Appended("Timeout")) =>
              (log'[Len(log')].wp = i /\ pc' = "dispatch" /\ i' = i + 1)
        /\ (pc = "dispatch" /\ pc' # pc) =>
              \/ pc' = "send" /\ Appended("Goal Sent") /\ log'[Len(log')].wp = i
                    /\ i = Len(sendCalls) + 1
              \/ pc' = "summary" /\ i = Len(waypoints) + 1
              \/ pc' = "error" /\ closed
        /\ sendCalls' # sendCalls => sendCalls' = Append(sendCalls, Len(sendCalls) + 1)
      ]_vars

C8_Witness ==
    /\ sendCalls = <<1, 2>>
    /\ HasRow(1, "Timeout")
    /\ HasRow(2, "Failed")
    /\ pc = "summary"
    /\ ~shutdownFlag

\* ----------------------------------------------------------------- C9
\* C9: without a shutdown the sequencer ends up, for good, in rospy.spin()
\* with the summary written, every waypoint sent once in order, and the log
\* still open.
C9_EventuallySummary ==
    <>[](/\ pc = "spin"
         /\ sumLine = NumSummaryWrites
         /\ FooterCount = 1
         /\ sendCalls = [k \in 1..Len(waypoints) |-> k]
         /\ ~closed)

C9_Witness ==
    /\ pc = "spin"
    /\ Len(waypoints) = 3
    /\ sendCalls = <<1, 2, 3>>
    /\ FooterCount = 1
    /\ waypoints_failed >= 1
    /\ ~closed

\* ---------------------------------------------------------------- C10
\* the value of the footer line with this label
FooterVal(text) ==
    LET k == CHOOSE n \in 1..Len(log) : log[n].kind = "footer" /\ log[n].text = text
    IN  log[k].val

\* C10: after normal completion the footer shows the list length, the
\* number of Reached rows, the number of Timeout plus Failed rows and the
\* rate 100 * reached / total to one decimal (0 for an empty list); 3 of 3
\* reached with dwell 0 gives 3 + 3 rows and 100.0, a timeout on waypoint 2
\* of 3 gives 2, 1 and 66.7.
C10_FooterMatchesRows ==
    pc \in {"spin", "exit"} =>
        LET total == Len(waypoints)
            r == RowCount("Reached")
            f == RowCount("Timeout") + RowCount("Failed")
            rate == FooterVal("Success Rate")
            err == rate * total - 1000 * r
        IN  /\ FooterVal("Total Waypoints") = total
            /\ FooterVal("Successfully Reached") = r
            /\ FooterVal("Failed") = f
            /\ total = 0 => rate = 0
            /\ total > 0 => (2 * err <= total /\ 2 * err >= -total)
            /\ (waypoints = <<0, 0, 0>> /\ r = 3) =>
                  /\ RowCount("Goal Sent") = 3
                  /\ Len(Rows) = 6
                  /\ f = 0
                  /\ rate = 1000
            /\ (total = 3 /\ HasRow(1, "Reached") /\ HasRow(2, "Timeout") /\ HasRow(3, "Reached")) =>
                  /\ FooterVal("Successfully Reached") = 2
                  /\ FooterVal("Failed") = 1
                  /\ rate = 667

C10_Witness ==
    /\ pc = "spin"
    /\ Len(waypoints) = 3
    /\ HasRow(1, "Reached")
    /\ HasRow(2, "Timeout")
    /\ HasRow(3, "Reached")
    /\ FooterVal("Success Rate") = 667

\* ---------------------------------------------------------------- C11
\* C11: a run of shutdown_hook on a log that is already closed writes
\* nothing, closes nothing and comes to its end: after two invocations the
\* log holds what it held after one, with one marker and one close.
C11_SecondHookNoOp ==
    [][ /\ (closed /\ shPc' # shPc) =>
              /\ log' = log
              /\ closed'
              /\ closeCount' = closeCount
              /\ shPc' \in {"cancel", "write", "done"}
        /\ (shPc = "done" /\ cancelCalls >= 2 => MarkerCount = 1 /\ closeCount = 1)'
      ]_vars

C11_Witness ==
    /\ shPc = "done"
    /\ cancelCalls = 2
    /\ closeCount = 1
    /\ MarkerCount = 1
    /\ pc = "exit"

C14_ShutdownNotCounted ==
    [][ /\ Appended("Timeout") => waitExit = "deadline"
        /\ (waypoints_failed' # waypoints_failed) => waitExit # "shutdown"
      ]_vars

C16_LateStatusDropped ==
    [][ LET gone == outstanding \ outstanding'
        IN  /\ (\E r \in gone : HasRow(r, "Timeout")) =>
                  /\ waypoints_reached' = waypoints_reached
                  /\ waypoints_failed' = waypoints_failed
                  /\ log' = log
                  /\ pc' = pc
                  /\ i' = i
                  /\ success' = success
            /\ (\E r \in gone : r # tracked) => result' = result
            /\ (result' # result /\ result' # NoResult) => tracked \in gone
            /\ (pc = "send" /\ pc' = "wait") => result' = NoResult
            /\ Appended("Reached") => (success /\ result = "SUCCEEDED" /\ tracked = i)
            /\ Appended("Failed") => (success /\ result \in TerminalStatuses \ {"SUCCEEDED"}
                                        /\ tracked = i)
      ]_vars

\* request 1 timed out and ended later, while waypoint 2 is being awaited
C16_Witness ==
    /\ HasRow(1, "Timeout")
    /\ 1 \notin outstanding
    /\ outstanding = {2}
    /\ tracked = 2
    /\ pc = "wait"
    /\ result = NoResult
    /\ waypoints_failed = 1
    /\ waypoints_reached = 0

\* ---------------------------------------------------------------- C17
\* C17: once the log is closed it never changes, its last record is the
\* shutdown marker, and a write the sequencer attempts ends the loop in an
\* error without a row and without a count.
C17_ClosedLogFrozen ==
    [][ /\ closed =>
              /\ log' = log
              /\ waypoints_reached' = waypoints_reached
              /\ waypoints_failed' = waypoints_failed
              /\ (pc \in {"dispatch", "check", "log_pause", "summary"} /\ pc' # pc) =>
                    (pc' = "error" \/ (pc = "dispatch" /\ pc' = "summary"))
        /\ (closed => (log # <<>> /\ log[Len(log)] = ShutdownMarker))'
      ]_vars

\* ---------------------------------------------------------------- C18
\* C18: once the hook has called cancel_all_goals the sequencer calls
\* send_goal no more, and no request is outstanding when the hook is done.
C18_NoSendAfterCancel ==
    [][ /\ cancelCalls >= 1 => sendCalls' = sendCalls
        /\ (shPc = "done" => outstanding = {})'
      ]_vars

====
